---------------------------- MODULE Spec2Model ----------------------------
(***************************************************************************)
(* Model of the two scripts of the repository:                             *)
(*   - mediapipe_pose_estimator.py, "the processor": PoseEstimator and     *)
(*     main(), a sequential batch over the images of a directory;          *)
(*   - openpose_pose_estimator.py, "the invoker": a top-level script that  *)
(*     looks for an OpenPose executable and runs it once.                  *)
(* File names are sequences of character codes, so that sorting, globbing  *)
(* and the derivation of output names are computed as the code computes    *)
(* them.  The external collaborators (cv2, mediapipe, the file system, the *)
(* subprocess) are nondeterministic choices over their possible outcomes.  *)
(***************************************************************************)
EXTENDS Integers, Sequences, FiniteSets, TLC

(***************************************************************************)
(* Bounds of the model.                                                    *)
(***************************************************************************)
\* largest number of entries of the input directory
MaxFiles == 3
\* longest stderr (in characters) the subprocess produces
MaxStderr == 2

(***************************************************************************)
(* Strings as sequences of character codes.                                *)
(***************************************************************************)
Range(s) == {s[i] : i \in 1..Len(s)}

\* Python's str comparison: lexicographic on code points
StrLess(s, t) ==
    \E k \in 0..(IF Len(s) < Len(t) THEN Len(s) ELSE Len(t)) :
        /\ \A i \in 1..k : s[i] = t[i]
        /\ \/ k = Len(s) /\ k < Len(t)
           \/ k < Len(s) /\ k < Len(t) /\ s[k + 1] < t[k + 1]

EndsWith(s, suf) ==
    /\ Len(suf) <= Len(s)
    /\ SubSeq(s, Len(s) - Len(suf) + 1, Len(s)) = suf

\* the entries the input directory may hold
NameUniverse ==
    { <<97, 46, 106, 112, 103>>,            \* a.jpg
      <<97, 46, 112, 110, 103>>,            \* a.png
      <<98, 46, 106, 112, 101, 103>>,       \* b.jpeg
      <<97, 46, 98, 46, 98, 109, 112>>,     \* a.b.bmp
      <<66, 46, 74, 80, 71>> }              \* B.JPG

\* the suffixes of the glob patterns '*.jpg', '*.jpeg', '*.png', '*.bmp', in order
Patterns ==
    << <<46, 106, 112, 103>>,
       <<46, 106, 112, 101, 103>>,
       <<46, 112, 110, 103>>,
       <<46, 98, 109, 112>> >>

\* Path.glob('*' + suffix): the entries whose name ends with the suffix,
\* as a list in the (arbitrary) order the directory yields them
SetToSeq(S) ==
    CHOOSE s \in [1..Cardinality(S) -> S] : Range(s) = S

Glob(dir, suffix) == SetToSeq({n \in dir : EndsWith(n, suffix)})

\* image_files.extend(list(glob(ext))) for each pattern in turn
RECURSIVE GlobAll(_, _)
GlobAll(dir, k) ==
    IF k = 0 THEN <<>>
    ELSE GlobAll(dir, k - 1) \o Glob(dir, Patterns[k])

\* sorted(image_files): a stable sort on the names, duplicates kept
RECURSIVE Insert(_, _)
Insert(x, s) ==
    IF s = <<>> THEN <<x>>
    ELSE IF StrLess(x, Head(s)) THEN <<x>> \o s
    ELSE <<Head(s)>> \o Insert(x, Tail(s))

RECURSIVE Sorted(_)
Sorted(s) ==
    IF s = <<>> THEN <<>>
    ELSE Insert(s[Len(s)], Sorted(SubSeq(s, 1, Len(s) - 1)))

ImageFiles(dir) == Sorted(GlobAll(dir, Len(Patterns)))

\* str.rfind('.'): the last index of '.', 0 when there is none (1-based)
RFindDot(name) ==
    IF \E i \in 1..Len(name) : name[i] = 46
    THEN CHOOSE i \in 1..Len(name) :
            /\ name[i] = 46
            /\ \A j \in (i + 1)..Len(name) : name[j] # 46
    ELSE 0

\* Path.stem: the name without its last suffix
Stem(name) ==
    LET i == RFindDot(name)
    IN IF 1 < i /\ i < Len(name) THEN SubSeq(name, 1, i - 1) ELSE name

\* variant for C8: the rendered image named after the stem alone
PoseNameFromStem(name) ==
    <<112, 111, 115, 101, 95>> \o Stem(name) \o <<46, 106, 112, 103>>

\* f'pose_{image_file.name}'
PoseName(name) == <<112, 111, 115, 101, 95>> \o name

\* f'landmarks_{image_file.stem}.txt'
LandmarkName(name) ==
    <<108, 97, 110, 100, 109, 97, 114, 107, 115, 95>> \o Stem(name) \o <<46, 116, 120, 116>>


(***************************************************************************)
(* The processor: state.                                                   *)
(***************************************************************************)
VARIABLES
    p_pc,           \* position of the processor script
    p_exit,         \* its exit status, -1 while it runs
    sys_modules,    \* the modules the interpreter has imported
    inDir,          \* the entries of the input directory
    outExists,      \* whether the output directory exists
    outFiles,       \* the files of the output directory: path -> content
    image_files,    \* the local image_files of process_directory
    idx,            \* index in image_files of the current iteration
    landmarks_dict, \* the local landmarks_dict of process_directory
    pose,           \* self.pose: "unset", "open" or "closed"
    attempted,      \* history: the images an iteration was started for
    detected,       \* history: the images the estimator found a pose in
    failed,         \* history: the images whose iteration ended in the handler
    writes,         \* history: the files written, in order, with their source
    log,            \* history: what was printed
    calls,          \* history: number of calls of Pose(), pose.process, pose.close
    quiet,          \* history: the images imread gave None for, imwrite gave False for
    outBefore       \* history: the output directory before the run

p_vars == <<p_pc, p_exit, sys_modules, inDir, outExists, outFiles, image_files,
            idx, landmarks_dict, pose, attempted, detected, failed, writes,
            log, calls, quiet, outBefore>>

\* required_packages of main
RequiredPackages == {"mediapipe", "tqdm"}

\* the modules the import statements at the top of the file bind
TopImports == {"cv2", "mediapipe", "numpy", "tqdm"}

NoName == <<>>

Msg(m, f, e) == [msg |-> m, file |-> f, err |-> e]

\* the full path of an input file, as printed when it cannot be read
PathOf(name) == <<"input_dir", name>>

\* a file written by this run
Content(name, body) == [src |-> name, body |-> body]

\* a file left by an earlier run
OldContent == [src |-> NoName, body |-> "old"]

\* what an earlier run may have left in the output directory
StaleNames ==
    { PoseName(<<97, 46, 106, 112, 103>>), LandmarkName(<<97, 46, 106, 112, 103>>) }

WriteFile(files, path, content) ==
    [q \in (DOMAIN files) \cup {path} |-> IF q = path THEN content ELSE files[q]]

\* truth value of landmarks_dict: None is false, a dict with keys is true
Truthy(d) == d = "dict"

p_Init ==
    /\ p_pc = "import"
    /\ p_exit = -1
    /\ sys_modules = {}
    /\ inDir \in {d \in SUBSET NameUniverse : Cardinality(d) <= MaxFiles}
    /\ \E stale \in {{}, StaleNames} :
          /\ outFiles = [q \in stale |-> OldContent]
          /\ outExists \in (IF stale = {} THEN BOOLEAN ELSE {TRUE})
    /\ image_files = <<>>
    /\ idx = 0
    /\ landmarks_dict = "unbound"
    /\ pose = "unset"
    /\ attempted = <<>>
    /\ detected = {}
    /\ failed = {}
    /\ writes = <<>>
    /\ log = <<>>
    /\ calls = [ctor |-> 0, infer |-> 0, close |-> 0]
    /\ quiet = [unreadable |-> {}, unwritten |-> {}]
    /\ outBefore = [exists |-> outExists, files |-> outFiles]

\* the state of the processor in a run of the other script
p_Off ==
    /\ p_pc = "off"
    /\ p_exit = -1
    /\ sys_modules = {}
    /\ inDir = {}
    /\ outExists = FALSE
    /\ outFiles = << >>
    /\ image_files = <<>>
    /\ idx = 0
    /\ landmarks_dict = "unbound"
    /\ pose = "unset"
    /\ attempted = <<>>
    /\ detected = {}
    /\ failed = {}
    /\ writes = <<>>
    /\ log = <<>>
    /\ calls = [ctor |-> 0, infer |-> 0, close |-> 0]
    /\ quiet = [unreadable |-> {}, unwritten |-> {}]
    /\ outBefore = [exists |-> FALSE, files |-> << >>]

(***************************************************************************)
(* The invoker: state.                                                     *)
(***************************************************************************)
VARIABLES
    i_pc,             \* position of the invoker script
    i_exit,           \* its exit status, -1 while it runs
    input_exists,     \* whether input_dir exists
    i_outExists,      \* whether output_dir exists
    i_outFiles,       \* the files of output_dir
    on_disk,          \* the candidate paths that exist on disk
    openpose_binary,  \* the variable of the script, "None" until found
    runs,             \* history: the commands handed to subprocess.run
    child,            \* history: the subprocesses started, what they did
    i_log,            \* history: what was printed
    i_before          \* history: the output directory before the run

i_vars == <<i_pc, i_exit, input_exists, i_outExists, i_outFiles, on_disk,
            openpose_binary, runs, child, i_log, i_before>>

vars == <<p_vars, i_vars>>

(***************************************************************************)
(* The processor: main() and PoseEstimator.                                *)
(***************************************************************************)

\* the except clause of main: report, then fall off the end of main
MainHandler(cause) ==
    /\ log' = Append(log, Msg("error_main", NoName, cause))
    /\ p_pc' = "del"

\* variant for C5: the first failing image ends the loop
ImageHandlerAbort(name, cause) ==
    /\ log' = Append(log, Msg("error_image", name, cause))
    /\ failed' = failed \cup {name}
    /\ idx' = Len(image_files) + 1
    /\ p_pc' = "loop"

\* the except clause of the loop body: report with the file's name, next file
ImageHandler(name, cause) ==
    /\ log' = Append(log, Msg("error_image", name, cause))
    /\ failed' = failed \cup {name}
    /\ idx' = idx + 1
    /\ p_pc' = "loop"

\* the import statements at the top of the file
ImportModules ==
    /\ UNCHANGED i_vars
    /\ p_pc = "import"
    /\ \E ok \in BOOLEAN :
          IF ok
          THEN /\ sys_modules' = TopImports
               /\ p_pc' = "main"
               /\ UNCHANGED <<p_exit, log>>
          ELSE \* ImportError escapes: traceback, exit status 1
               /\ log' = Append(log, Msg("traceback", NoName, "ImportError"))
               /\ p_pc' = "exit"
               /\ p_exit' = 1
               /\ UNCHANGED sys_modules
    /\ UNCHANGED <<outBefore, quiet>>
    /\ UNCHANGED <<inDir, outExists, outFiles, image_files, idx, landmarks_dict,
                   pose, attempted, detected, failed, writes, calls>>

\* main: the check of required_packages, pip install for the missing ones
CheckPackages ==
    /\ UNCHANGED i_vars
    /\ p_pc = "main"
    /\ LET missing == RequiredPackages \ sys_modules
       IN IF missing = {}
          THEN /\ log' = Append(log, Msg("init", NoName, "none"))
               /\ p_pc' = "construct"
          ELSE \E ok \in BOOLEAN :
                  IF ok
                  THEN /\ log' = Append(log, Msg("init", NoName, "none"))
                       /\ p_pc' = "construct"
                  ELSE MainHandler("CalledProcessError")
    /\ UNCHANGED <<outBefore, quiet>>
    /\ UNCHANGED <<p_exit, sys_modules, inDir, outExists, outFiles, image_files,
                   idx, landmarks_dict, pose, attempted, detected, failed,
                   writes, calls>>

\* estimator = PoseEstimator(): __init__ builds self.pose
Construct ==
    /\ UNCHANGED i_vars
    /\ p_pc = "construct"
    /\ calls' = [calls EXCEPT !.ctor = @ + 1]
    /\ \E ok \in BOOLEAN :
          IF ok
          THEN /\ pose' = "open"
               /\ p_pc' = "mkdir"
               /\ UNCHANGED log
          ELSE /\ MainHandler("PoseError")
               /\ UNCHANGED pose
    /\ UNCHANGED <<outBefore, quiet>>
    /\ UNCHANGED <<p_exit, sys_modules, inDir, outExists, outFiles, image_files,
                   idx, landmarks_dict, attempted, detected, failed, writes>>

\* process_directory: output_path.mkdir(parents=True, exist_ok=True)
MakeOutputDir ==
    /\ UNCHANGED i_vars
    /\ p_pc = "mkdir"
    /\ \E ok \in BOOLEAN :
          IF ok \/ outExists
          THEN /\ outExists' = TRUE
               /\ p_pc' = "glob"
               /\ UNCHANGED log
          ELSE /\ MainHandler("OSError")
               /\ UNCHANGED outExists
    /\ UNCHANGED <<outBefore, quiet>>
    /\ UNCHANGED <<p_exit, sys_modules, inDir, outFiles, image_files, idx,
                   landmarks_dict, pose, attempted, detected, failed, writes,
                   calls>>

\* variant for C9: no test for an empty list
CollectImagesNoCheck ==
    /\ UNCHANGED i_vars
    /\ p_pc = "glob"
    /\ image_files' = ImageFiles(inDir)
    /\ idx' = 1
    /\ log' = Append(log, Msg("start", NoName, "none"))
    /\ p_pc' = "loop"
    /\ UNCHANGED <<outBefore, quiet>>
    /\ UNCHANGED <<p_exit, sys_modules, inDir, outExists, outFiles,
                   landmarks_dict, pose, attempted, detected, failed, writes,
                   calls>>

\* process_directory: collect and sort the image files; warn and return if none
CollectImages ==
    /\ UNCHANGED i_vars
    /\ p_pc = "glob"
    /\ image_files' = ImageFiles(inDir)
    /\ idx' = 1
    /\ IF image_files' = <<>>
       THEN /\ log' = Append(log, Msg("warning_no_images", NoName, "none"))
            /\ p_pc' = "ret"
       ELSE /\ log' = Append(log, Msg("start", NoName, "none"))
            /\ p_pc' = "loop"
    /\ UNCHANGED <<outBefore, quiet>>
    /\ UNCHANGED <<p_exit, sys_modules, inDir, outExists, outFiles,
                   landmarks_dict, pose, attempted, detected, failed, writes,
                   calls>>

\* the loop takes the next file and reads it: cv2.imread
ReadImage ==
    /\ UNCHANGED i_vars
    /\ p_pc = "loop"
    /\ idx <= Len(image_files)
    /\ LET image_file == image_files[idx]
       IN /\ attempted' = Append(attempted, image_file)
          /\ \E r \in {"none", "image", "raise"} :
                CASE r = "none" ->
                        /\ log' = Append(log, Msg("cannot_read", PathOf(image_file), "none"))
                        /\ quiet' = [quiet EXCEPT !.unreadable = @ \cup {image_file}]
                        /\ idx' = idx + 1
                        /\ UNCHANGED <<p_pc, failed>>
                  [] r = "image" ->
                        /\ p_pc' = "process"
                        /\ UNCHANGED <<log, idx, failed, quiet>>
                  [] r = "raise" ->
                        /\ ImageHandler(image_file, "imread")
                        /\ UNCHANGED quiet
    /\ UNCHANGED outBefore
    /\ UNCHANGED <<p_exit, sys_modules, inDir, outExists, outFiles, image_files,
                   landmarks_dict, pose, detected, writes, calls>>

\* self.process_image(image): colour conversion, inference, drawing
ProcessImage ==
    /\ UNCHANGED i_vars
    /\ p_pc = "process"
    /\ LET image_file == image_files[idx]
       IN \E r \in {"raise_cvt", "raise_infer", "nopose", "pose", "raise_draw"} :
            /\ calls' = IF r = "raise_cvt" THEN calls
                        ELSE [calls EXCEPT !.infer = @ + 1]
            /\ detected' = IF r \in {"pose", "raise_draw"}
                           THEN detected \cup {image_file} ELSE detected
            /\ IF r \in {"nopose", "pose"}
               THEN /\ landmarks_dict' = IF r = "pose" THEN "dict" ELSE "None"
                    /\ p_pc' = "imwrite"
                    /\ UNCHANGED <<log, failed, idx>>
               ELSE /\ ImageHandler(image_file, r)
                    /\ UNCHANGED landmarks_dict
    /\ UNCHANGED <<outBefore, quiet>>
    /\ UNCHANGED <<p_exit, sys_modules, inDir, outExists, outFiles, image_files,
                   pose, attempted, writes>>

\* cv2.imwrite(str(output_file), result_image); its result is not looked at
WriteImage ==
    /\ UNCHANGED i_vars
    /\ p_pc = "imwrite"
    /\ LET image_file == image_files[idx]
           output_file == PoseName(image_file)
           body == IF landmarks_dict = "dict" THEN "overlay" ELSE "copy"
       IN \E r \in {"ok", "false", "raise"} :
            IF r = "raise"
            THEN /\ ImageHandler(image_file, "imwrite")
                 /\ UNCHANGED <<outFiles, writes, quiet>>
            ELSE /\ IF r = "ok"
                    THEN /\ outFiles' = WriteFile(outFiles, output_file,
                                                  Content(image_file, body))
                         /\ writes' = Append(writes, [path |-> output_file,
                                                      src |-> image_file])
                         /\ UNCHANGED quiet
                    ELSE /\ quiet' = [quiet EXCEPT !.unwritten = @ \cup {image_file}]
                         /\ UNCHANGED <<outFiles, writes>>
                 /\ IF Truthy(landmarks_dict)
                    THEN /\ p_pc' = "save"
                         /\ UNCHANGED idx
                    ELSE /\ p_pc' = "loop"
                         /\ idx' = idx + 1
                 /\ UNCHANGED <<log, failed>>
    /\ UNCHANGED outBefore
    /\ UNCHANGED <<p_exit, sys_modules, inDir, outExists, image_files,
                   landmarks_dict, pose, attempted, detected, calls>>

\* self.save_landmarks(landmarks_dict, landmark_file): open(..., 'w'), writes
SaveLandmarks ==
    /\ UNCHANGED i_vars
    /\ p_pc = "save"
    /\ LET image_file == image_files[idx]
           landmark_file == LandmarkName(image_file)
       IN \E r \in {"ok", "open_raise", "write_raise"} :
            CASE r = "ok" ->
                    /\ outFiles' = WriteFile(outFiles, landmark_file,
                                             Content(image_file, "landmarks"))
                    /\ writes' = Append(writes, [path |-> landmark_file,
                                                 src |-> image_file])
                    /\ p_pc' = "loop"
                    /\ idx' = idx + 1
                    /\ UNCHANGED <<log, failed>>
              [] r = "open_raise" ->
                    /\ ImageHandler(image_file, "open")
                    /\ UNCHANGED <<outFiles, writes>>
              [] r = "write_raise" ->
                    \* the file was created or truncated by open
                    /\ outFiles' = WriteFile(outFiles, landmark_file,
                                             Content(image_file, "truncated"))
                    /\ writes' = Append(writes, [path |-> landmark_file,
                                                 src |-> image_file])
                    /\ ImageHandler(image_file, "write")
    /\ UNCHANGED <<outBefore, quiet>>
    /\ UNCHANGED <<p_exit, sys_modules, inDir, outExists, image_files,
                   landmarks_dict, pose, attempted, detected, calls>>

\* the loop is exhausted: process_directory returns
LoopEnd ==
    /\ UNCHANGED i_vars
    /\ p_pc = "loop"
    /\ idx > Len(image_files)
    /\ p_pc' = "ret"
    /\ UNCHANGED <<outBefore, quiet>>
    /\ UNCHANGED <<p_exit, sys_modules, inDir, outExists, outFiles, image_files,
                   idx, landmarks_dict, pose, attempted, detected, failed,
                   writes, log, calls>>

\* main: the completion message after process_directory returned
ReportDone ==
    /\ UNCHANGED i_vars
    /\ p_pc = "ret"
    /\ log' = Append(log, Msg("done", NoName, "none"))
    /\ p_pc' = "del"
    /\ UNCHANGED <<outBefore, quiet>>
    /\ UNCHANGED <<p_exit, sys_modules, inDir, outExists, outFiles, image_files,
                   idx, landmarks_dict, pose, attempted, detected, failed,
                   writes, calls>>

\* variant for C7: the estimator is dropped without pose.close()
ReleaseWithoutClose ==
    /\ UNCHANGED i_vars
    /\ p_pc = "del"
    /\ p_pc' = "exit"
    /\ p_exit' = 0
    /\ UNCHANGED <<outBefore, quiet, pose, calls>>
    /\ UNCHANGED <<sys_modules, inDir, outExists, outFiles, image_files, idx,
                   landmarks_dict, attempted, detected, failed, writes, log>>

\* main returns: the estimator is dropped and __del__ runs self.pose.close();
\* without self.pose it raises AttributeError, which the interpreter ignores
Release ==
    /\ UNCHANGED i_vars
    /\ p_pc = "del"
    /\ IF pose = "open"
       THEN /\ pose' = "closed"
            /\ calls' = [calls EXCEPT !.close = @ + 1]
       ELSE UNCHANGED <<pose, calls>>
    /\ p_pc' = "exit"
    /\ p_exit' = 0
    /\ UNCHANGED <<outBefore, quiet>>
    /\ UNCHANGED <<sys_modules, inDir, outExists, outFiles, image_files, idx,
                   landmarks_dict, attempted, detected, failed, writes, log>>


(***************************************************************************)
(* The invoker: helpers.                                                   *)
(***************************************************************************)

possible_paths ==
    << "./build/examples/openpose/openpose.bin",
       "/usr/local/bin/openpose.bin",
       "C:/Program Files/OpenPose/bin/OpenPoseDemo.exe" >>

\* the bytes a subprocess may write to a pipe: an ordinary character, a
\* carriage return, a line feed, a byte the locale's encoding cannot decode
StderrBytes == {"x", "CR", "LF", "BAD"}
StdoutBytes == {"o"}

BoundedSeq(S, n) == UNION {[1..k -> S] : k \in 0..n}

\* the files the external executable may leave in the output directory
ChildFiles == {"rendered.png"}

\* the files an earlier run may have left in the output directory
OldFiles == {"old.png"}

\* the loop over possible_paths: the first path that exists, else None
RECURSIVE SearchFrom(_, _)
SearchFrom(exists, k) ==
    IF k > Len(possible_paths) THEN "None"
    ELSE IF possible_paths[k] \in exists THEN possible_paths[k]
    ELSE SearchFrom(exists, k + 1)

\* variant for C3: fall back on the default path when none exists
FindBinaryDefault(exists) ==
    IF SearchFrom(exists, 1) = "None" THEN possible_paths[1]
    ELSE SearchFrom(exists, 1)

FindBinary(exists) == SearchFrom(exists, 1)

\* variant for C6: the command without --write_images
CommandNoOutput(binary) ==
    << binary, "--image_dir", "input_dir", "--display", "0", "--render_pose", "1" >>

\* the list command of the script
Command(binary) ==
    << binary, "--image_dir", "input_dir", "--write_images", "output_dir",
       "--display", "0", "--render_pose", "1" >>

\* text=True: the captured bytes are decoded and newlines are translated
RECURSIVE TranslateNewlines(_)
TranslateNewlines(s) ==
    IF s = <<>> THEN <<>>
    ELSE IF Len(s) >= 2 /\ s[1] = "CR" /\ s[2] = "LF"
         THEN <<"LF">> \o TranslateNewlines(SubSeq(s, 3, Len(s)))
    ELSE IF s[1] = "CR" THEN <<"LF">> \o TranslateNewlines(Tail(s))
    ELSE <<s[1]>> \o TranslateNewlines(Tail(s))

Decodable(s) == "BAD" \notin Range(s)

\* subprocess.run(command, capture_output=True, text=True, check=True):
\* what it returns or raises, given whether the process could be started,
\* its exit status and what it wrote to its pipes
SubprocessRun(launched, rc, out, err) ==
    IF ~launched THEN [exc |-> "OSError", returncode |-> -1,
                       output |-> <<>>, stderr |-> <<>>]
    ELSE IF ~(Decodable(out) /\ Decodable(err))
         THEN [exc |-> "UnicodeDecodeError", returncode |-> rc,
               output |-> <<>>, stderr |-> <<>>]
    ELSE [exc |-> IF rc # 0 THEN "CalledProcessError" ELSE "none",
          returncode |-> rc,
          output |-> TranslateNewlines(out),
          stderr |-> TranslateNewlines(err)]

IMsg(m, t) == [msg |-> m, text |-> t]

\* variant for C4: the exit status of the subprocess is passed on
ExitStatusOfChild(e) == IF e.exc = "CalledProcessError" THEN e.returncode ELSE 0

\* the script ends after the try statement, whichever clause ran
ExitStatusAfterTry(e) == 0

\* the except clause for CalledProcessError: the error, its stderr, guidance
FailureReport(e) ==
    << IMsg("error_run", <<"CalledProcessError">>),
       IMsg("error_output", e.stderr),
       IMsg("guidance_check", <<>>) >>

i_Init ==
    /\ i_pc = "start"
    /\ i_exit = -1
    /\ input_exists \in BOOLEAN
    /\ \E old \in SUBSET OldFiles :
          /\ i_outFiles = old
          /\ i_outExists \in (IF old = {} /\ input_exists THEN BOOLEAN
                              ELSE IF old = {} THEN {FALSE} ELSE {TRUE})
          /\ old # {} => input_exists
    /\ on_disk \in SUBSET Range(possible_paths)
    /\ openpose_binary = "None"
    /\ runs = <<>>
    /\ child = <<>>
    /\ i_log = <<>>
    /\ i_before = [exists |-> i_outExists, files |-> i_outFiles]

\* the state of the invoker in a run of the other script
i_Off ==
    /\ i_pc = "off"
    /\ i_exit = -1
    /\ input_exists = FALSE
    /\ i_outExists = FALSE
    /\ i_outFiles = {}
    /\ on_disk = {}
    /\ openpose_binary = "None"
    /\ runs = <<>>
    /\ child = <<>>
    /\ i_log = <<>>
    /\ i_before = [exists |-> FALSE, files |-> {}]

(***************************************************************************)
(* The invoker: the statements of the script, in order.                    *)
(***************************************************************************)

\* an exception no handler catches: traceback, exit status 1
Uncaught(exc) ==
    /\ i_log' = Append(i_log, IMsg("traceback", <<exc>>))
    /\ i_pc' = "exit"
    /\ i_exit' = 1

\* if not input_dir.exists(): raise FileNotFoundError
CheckInput ==
    /\ UNCHANGED p_vars
    /\ i_pc = "start"
    /\ IF ~input_exists
       THEN Uncaught("FileNotFoundError")
       ELSE /\ i_pc' = "mkdir"
            /\ UNCHANGED <<i_log, i_exit>>
    /\ UNCHANGED <<input_exists, i_outExists, i_outFiles, on_disk,
                   openpose_binary, runs, child, i_before>>

\* output_dir.mkdir(parents=True, exist_ok=True)
EnsureOutputDir ==
    /\ UNCHANGED p_vars
    /\ i_pc = "mkdir"
    /\ \E ok \in BOOLEAN :
          IF ok \/ i_outExists
          THEN /\ i_outExists' = TRUE
               /\ i_pc' = "search"
               /\ UNCHANGED <<i_log, i_exit>>
          ELSE /\ Uncaught("OSError")
               /\ UNCHANGED i_outExists
    /\ UNCHANGED <<input_exists, i_outFiles, on_disk, openpose_binary, runs, child, i_before>>

\* the search for the executable; without one: guidance and exit(1)
FindOpenPose ==
    /\ UNCHANGED p_vars
    /\ i_pc = "search"
    /\ openpose_binary' = FindBinary(on_disk)
    /\ IF openpose_binary' = "None"
       THEN /\ i_log' = i_log \o << IMsg("error_not_found", <<>>),
                                    IMsg("guidance_install", <<>>) >>
            /\ i_pc' = "exit"
            /\ i_exit' = 1
       ELSE /\ i_pc' = "run"
            /\ UNCHANGED <<i_log, i_exit>>
    /\ UNCHANGED <<input_exists, i_outExists, i_outFiles, on_disk, runs, child,
                   i_before>>

\* the try block: build the command, subprocess.run, and the two handlers;
\* the script then ends
RunOpenPose ==
    /\ UNCHANGED p_vars
    /\ i_pc = "run"
    /\ LET command == Command(openpose_binary)
           head == << IMsg("using", <<openpose_binary>>), IMsg("command", command) >>
       IN /\ runs' = Append(runs, command)
          /\ \E launched \in BOOLEAN, rc \in {0, 1},
                out \in BoundedSeq(StdoutBytes, 1),
                err \in BoundedSeq(StderrBytes, MaxStderr),
                made \in SUBSET ChildFiles :
                LET e == SubprocessRun(launched, rc, out, err)
                IN /\ IF launched
                      THEN /\ child' = Append(child, [cmd |-> command, rc |-> rc,
                                                      out |-> out, err |-> err])
                           /\ i_outFiles' = i_outFiles \cup made
                      ELSE UNCHANGED <<child, i_outFiles>>
                   /\ i_log' =
                        CASE e.exc = "none" ->
                                i_log \o head \o << IMsg("done", <<"output_dir">>) >>
                          [] e.exc = "CalledProcessError" ->
                                i_log \o head \o FailureReport(e)
                          [] OTHER ->
                                i_log \o head \o << IMsg("error_unexpected", <<e.exc>>) >>
                   /\ i_exit' = ExitStatusAfterTry(e)
    /\ i_pc' = "exit"
    /\ UNCHANGED <<input_exists, i_outExists, on_disk, openpose_binary, i_before>>


(***************************************************************************)
(* Specification: one run of one of the two scripts.                       *)
(***************************************************************************)
InitProcessor == p_Init /\ i_Off

InitInvoker == i_Init /\ p_Off

Init == InitProcessor \/ InitInvoker

Next ==
    \/ ImportModules
    \/ CheckPackages
    \/ Construct
    \/ MakeOutputDir
    \/ CollectImages
    \/ ReadImage
    \/ ProcessImage
    \/ WriteImage
    \/ SaveLandmarks
    \/ LoopEnd
    \/ ReportDone
    \/ Release
    \/ CheckInput
    \/ EnsureOutputDir
    \/ FindOpenPose
    \/ RunOpenPose

Spec == Init /\ [][Next]_vars

(***************************************************************************)
(* Vocabulary of the properties.                                           *)
(***************************************************************************)
\* the entries of the input directory that match one of the patterns
Recognized == {n \in inDir : \E k \in 1..Len(Patterns) : EndsWith(n, Patterns[k])}

LogHas(m) == \E i \in 1..Len(log) : log[i] = m

ILogHas(m) == \E i \in 1..Len(i_log) : i_log[i] = m

\* this run wrote the rendered image of n / the landmark file of n
PoseWrittenFor(n) ==
    \E i \in 1..Len(writes) : writes[i] = [path |-> PoseName(n), src |-> n]

LandmarkWrittenFor(n) ==
    \E i \in 1..Len(writes) : writes[i] = [path |-> LandmarkName(n), src |-> n]

\* a path with the prefix pose_
IsPosePath(path) ==
    /\ Len(path) >= 5
    /\ SubSeq(path, 1, 5) = <<112, 111, 115, 101, 95>>

\* process_directory was called and has ended, by return or by raising
DirectoryDone == pose # "unset" /\ p_pc \in {"ret", "del", "exit"}

\* main was entered and has ended
MainDone == p_pc = "exit" /\ sys_modules # {}

InBatch == p_pc \in {"mkdir", "glob", "loop", "process", "imwrite", "save", "ret"}

\* the first candidate path that exists on disk
FirstOnDisk ==
    possible_paths[CHOOSE k \in 1..Len(possible_paths) :
                      /\ possible_paths[k] \in on_disk
                      /\ \A j \in 1..(k - 1) : possible_paths[j] \notin on_disk]

(***************************************************************************)
(* C1: after an iteration of process_directory that ended with a caught   *)
(* exception, either both artifacts of the image (pose_<name> and          *)
(* landmarks_<stem>.txt) have been written by that iteration or neither.   *)
(* The code does not keep this: see WriteImage and SaveLandmarks.          *)
(***************************************************************************)
C1_BothOrNeither ==
    \A n \in failed : PoseWrittenFor(n) <=> LandmarkWrittenFor(n)

(***************************************************************************)
(* C2: when process_directory has returned, for every recognized image    *)
(* the file landmarks_<stem>.txt exists in the output directory if and     *)
(* only if the estimator detected a pose in that image.  The code does not *)
(* keep this.                                                              *)
(***************************************************************************)
C2_LandmarkIffDetected ==
    p_pc = "ret" =>
        \A n \in Recognized :
            (LandmarkName(n) \in DOMAIN outFiles) <=> (n \in detected)

(***************************************************************************)
(* C3 as stated: when no candidate executable exists the invoker exits     *)
(* with status 1, has started no subprocess and has left the output        *)
(* directory as it was before the run.                                     *)
(***************************************************************************)
C3_Original ==
    (i_pc = "exit" /\ on_disk = {}) =>
        /\ i_exit = 1
        /\ runs = <<>> /\ child = <<>>
        /\ [exists |-> i_outExists, files |-> i_outFiles] = i_before

(***************************************************************************)
(* C3 amended: when no candidate executable exists the invoker exits with  *)
(* status 1, has started no subprocess and has written no file into the    *)
(* output directory; the directory itself is created when it was missing   *)
(* (and the input directory exists), and is never removed.                 *)
(***************************************************************************)
C3_Amended ==
    (i_pc = "exit" /\ on_disk = {}) =>
        /\ i_exit = 1
        /\ runs = <<>> /\ child = <<>>
        /\ i_outFiles = i_before.files
        /\ i_before.exists => i_outExists
        /\ ILogHas(IMsg("error_not_found", <<>>)) => i_outExists

C3_Witness ==
    /\ i_pc = "exit" /\ on_disk = {}
    /\ ILogHas(IMsg("error_not_found", <<>>))
    /\ ~i_before.exists /\ i_outExists

(***************************************************************************)
(* C4 as stated: the invoker ends with exit status 1 when no candidate     *)
(* executable is found and with 0 in every other run, a missing input      *)
(* directory included; main of the processor always ends with status 0.    *)
(***************************************************************************)
C4_Original ==
    /\ i_pc = "exit" => i_exit = (IF on_disk = {} THEN 1 ELSE 0)
    /\ MainDone => p_exit = 0

(***************************************************************************)
(* C4 amended: the invoker ends with exit status 1 when the input          *)
(* directory is missing or the output directory cannot be created (an      *)
(* exception no handler catches) or no candidate executable is found; in   *)
(* every run that reaches subprocess.run it ends with status 0, whatever   *)
(* the subprocess does; main of the processor always ends with status 0.   *)
(***************************************************************************)
C4_Amended ==
    /\ i_pc = "exit" =>
          i_exit = (IF input_exists /\ i_outExists /\ on_disk # {} THEN 0 ELSE 1)
    /\ (i_pc = "exit" /\ ~(input_exists /\ i_outExists)) =>
          i_log[Len(i_log)].msg = "traceback"
    /\ runs # <<>> => (i_pc = "exit" /\ i_exit = 0)
    /\ p_pc = "exit" => p_exit = (IF sys_modules # {} THEN 0 ELSE 1)

C4_Witness ==
    /\ i_pc = "exit" /\ i_exit = 0
    /\ runs # <<>> /\ child = <<>>
    /\ ILogHas(IMsg("error_unexpected", <<"OSError">>))

(***************************************************************************)
(* C5: the images process_directory starts an iteration for are the        *)
(* recognized files in sorted order, each exactly once, whatever failed    *)
(* before: no exception of an iteration reaches main.  (The list of the    *)
(* started iterations is strictly increasing, holds every recognized file  *)
(* below its last element, and is complete when the directory is done.)    *)
(***************************************************************************)
C5_SortedEachOnce ==
    /\ \A i \in 1..(Len(attempted) - 1) :
          StrLess(attempted[i], attempted[i + 1])
    /\ Range(attempted) \subseteq Recognized
    /\ attempted # <<>> =>
          \A n \in Recognized :
              StrLess(n, attempted[Len(attempted)]) => n \in Range(attempted)
    /\ (DirectoryDone /\ ~LogHas(Msg("error_main", NoName, "OSError"))) =>
          Range(attempted) = Recognized
    /\ attempted # <<>> => \A i \in 1..Len(log) : log[i].msg # "error_main"

C5_Witness ==
    /\ p_pc = "ret"
    /\ Len(attempted) >= 2
    /\ attempted[1] \in failed

(***************************************************************************)
(* C6 as stated: whenever a candidate executable exists the invoker starts *)
(* it exactly once with the documented arguments, and reports the captured *)
(* stderr when it exits non-zero.                                          *)
(***************************************************************************)
C6_Original ==
    (i_pc = "exit" /\ on_disk # {}) =>
        /\ Len(runs) = 1 /\ Len(child) = 1
        /\ runs[1] = << FirstOnDisk, "--image_dir", "input_dir",
                        "--write_images", "output_dir",
                        "--display", "0", "--render_pose", "1" >>
        /\ child[1].rc # 0 =>
              ILogHas(IMsg("error_output", TranslateNewlines(child[1].err)))

(***************************************************************************)
(* C6 amended: when the input directory exists, the output directory       *)
(* exists or can be created, and a candidate executable exists, the        *)
(* invoker calls subprocess.run exactly once, for the first existing       *)
(* candidate and with the documented arguments, so the executable is       *)
(* started at most once; if it exits non-zero and its output can be        *)
(* decoded, the failure report holds the captured stderr text.  Otherwise  *)
(* nothing is started.                                                     *)
(***************************************************************************)
C6_Amended ==
    /\ (i_pc = "exit" /\ on_disk # {} /\ input_exists /\ i_outExists) =>
          /\ Len(runs) = 1 /\ Len(child) <= 1
          /\ runs[1] = << FirstOnDisk, "--image_dir", "input_dir",
                          "--write_images", "output_dir",
                          "--display", "0", "--render_pose", "1" >>
          /\ \A k \in 1..Len(child) :
                /\ child[k].cmd = runs[1]
                /\ (child[k].rc # 0 /\ Decodable(child[k].out)
                                    /\ Decodable(child[k].err)) =>
                      ILogHas(IMsg("error_output", TranslateNewlines(child[k].err)))
    /\ ~(on_disk # {} /\ input_exists /\ i_outExists) =>
          runs = <<>> /\ child = <<>>

C6_Witness ==
    /\ i_pc = "exit"
    /\ Cardinality(on_disk) >= 2
    /\ Len(child) = 1 /\ child[1].rc = 1
    /\ child[1].err = <<"x", "CR">>

(***************************************************************************)
(* C7 as stated: in every run of main the estimator is constructed exactly *)
(* once before any image and closed exactly once after the batch, also     *)
(* when its construction raises.                                           *)
(***************************************************************************)
C7_Original ==
    /\ attempted # <<>> => calls.ctor = 1
    /\ InBatch => calls.close = 0
    /\ MainDone => calls.ctor = 1 /\ calls.close = 1

(***************************************************************************)
(* C7 amended: the estimator is constructed at most once, before any       *)
(* image; when its construction succeeds it stays open during the batch    *)
(* and is closed exactly once after process_directory has returned or      *)
(* raised, whatever failed per image; when its construction raises, no     *)
(* image is processed and close is never called.                           *)
(***************************************************************************)
C7_Amended ==
    /\ calls.ctor <= 1 /\ calls.close <= 1
    /\ (attempted # <<>> \/ calls.infer > 0) => calls.ctor = 1
    /\ InBatch => pose = "open" /\ calls.close = 0
    /\ p_pc \in {"process", "imwrite", "save"} => pose = "open"
    /\ MainDone =>
          /\ calls.ctor = 1
          /\ IF LogHas(Msg("error_main", NoName, "PoseError"))
             THEN calls.close = 0 /\ attempted = <<>> /\ pose = "unset"
             ELSE calls.close = 1 /\ pose = "closed"

C7_Witness ==
    /\ MainDone
    /\ calls.close = 1
    /\ Cardinality(failed) >= 2

(***************************************************************************)
(* C8: with N recognized files of which exactly one cannot be decoded and  *)
(* the rest processed without error, process_directory finishes the batch, *)
(* writes exactly N-1 rendered images, one per decodable image, writes     *)
(* nothing on behalf of the undecodable file and reports it with its path. *)
(***************************************************************************)
C8_OneUndecodable ==
    (p_pc = "ret" /\ Cardinality(quiet.unreadable) = 1
                  /\ failed = {} /\ quiet.unwritten = {}) =>
        LET u == CHOOSE n \in quiet.unreadable : TRUE
            poseWrites == {i \in 1..Len(writes) : IsPosePath(writes[i].path)}
        IN /\ Range(attempted) = Recognized
           /\ Cardinality(poseWrites) = Cardinality(Recognized) - 1
           /\ Cardinality({writes[i].path : i \in poseWrites})
                 = Cardinality(Recognized) - 1
           /\ \A n \in Recognized \ {u} :
                 /\ PoseName(n) \in DOMAIN outFiles
                 /\ outFiles[PoseName(n)].src = n
           /\ \A i \in 1..Len(writes) : writes[i].src # u
           /\ LogHas(Msg("cannot_read", PathOf(u), "none"))

C8_Witness ==
    /\ p_pc = "ret"
    /\ Cardinality(quiet.unreadable) = 1
    /\ failed = {} /\ quiet.unwritten = {}
    /\ Cardinality(Recognized) = 3
    /\ Len(writes) >= 3

(***************************************************************************)
(* C9 as stated: with no recognized file in the input directory            *)
(* process_directory is a no-op: when it has returned it has reported a    *)
(* warning, has never called the inference and has left the file system as *)
(* it was, no file and no directory created.                               *)
(***************************************************************************)
C9_Original ==
    (Recognized = {} /\ p_pc = "ret") =>
        /\ LogHas(Msg("warning_no_images", NoName, "none"))
        /\ calls.infer = 0
        /\ [exists |-> outExists, files |-> outFiles] = outBefore

(***************************************************************************)
(* C9 amended: with no recognized file in the input directory              *)
(* process_directory creates the output directory when it is missing, and  *)
(* raises to its caller when it cannot; otherwise it reports a warning,    *)
(* returns normally, never calls the inference and creates no file.        *)
(***************************************************************************)
C9_Amended ==
    (Recognized = {} /\ DirectoryDone) =>
        /\ calls.infer = 0
        /\ attempted = <<>> /\ writes = <<>>
        /\ outFiles = outBefore.files
        /\ IF LogHas(Msg("error_main", NoName, "OSError"))
           THEN /\ ~LogHas(Msg("warning_no_images", NoName, "none"))
                /\ ~outExists /\ ~outBefore.exists
           ELSE /\ LogHas(Msg("warning_no_images", NoName, "none"))
                /\ ~LogHas(Msg("start", NoName, "none"))
                /\ outExists

C9_Witness ==
    /\ p_pc = "ret"
    /\ Recognized = {} /\ inDir # {}
    /\ ~outBefore.exists /\ outExists

(***************************************************************************)
(* C10: within one run no output file is written twice: two distinct       *)
(* recognized input files have distinct rendered-image paths and distinct  *)
(* landmark-file paths.  The code does not keep this for the landmark      *)
(* files: see LandmarkName.                                                *)
(***************************************************************************)
C10_DistinctOutputs ==
    /\ \A n, m \in Range(image_files) :
          n # m => /\ PoseName(n) # PoseName(m)
                   /\ LandmarkName(n) # LandmarkName(m)
    /\ \A i, j \in 1..Len(writes) :
          i < j => writes[i].path # writes[j].path

=============================================================================
